---- MODULE Spec2Model ----
(***************************************************************************)
(* Model of the Frontier Mining Tracker import scripts                     *)
(*   src/tools/import_vehicles.py  (vehicle spreadsheet / JSON import)     *)
(*   src/tools/import_items.py     (item spreadsheet / JSON import)        *)
(*   src/tools/import_locations.py (location spreadsheet to JSON tables)   *)
(*                                                                         *)
(* Text is modelled as a sequence of one-character strings, so that the    *)
(* regular expressions, strip(), lower()/upper() and replace() of the      *)
(* scripts are computed character by character.  Numbers are modelled as   *)
(* exact decimals, held as an integer count of thousandths (2.5 is 2500).  *)
(* A Python / pandas / JSON value is a record [t, n, s, b]: t is the type  *)
(* tag, and n, s, b hold the payload of a number, a text, a boolean.       *)
(***************************************************************************)
EXTENDS Integers, Sequences, FiniteSets, TLC

\* ------------------------------------------------------------------ bounds
\* rows of one vehicle spreadsheet / records of one vehicle JSON file
MaxVehicleRows == 3
\* rows of one item spreadsheet / objects of one item JSON file
MaxItemRows == 2
\* rows of one location spreadsheet
MaxLocationRows == 3

\* thousandths per unit: the resolution of the decimal numbers of the model
Scale == 10 * 10 * 10

\* ------------------------------------------------------------------ values
NaN == [t |-> "nan", n |-> 0, s |-> <<>>, b |-> FALSE]
None == [t |-> "none", n |-> 0, s |-> <<>>, b |-> FALSE]
Num(x) == [t |-> "num", n |-> x, s |-> <<>>, b |-> FALSE]
Str(x) == [t |-> "str", n |-> 0, s |-> x, b |-> FALSE]
Bool(x) == [t |-> "bool", n |-> 0, s |-> <<>>, b |-> x]

\* pandas.isna / pandas.notna of a scalar
IsNa(v) == v.t \in {"nan", "none"}
NotNa(v) == ~IsNa(v)

\* Python truthiness, as used by `or` and by `1 if x else 0`
Truthy(v) ==
    CASE v.t = "none" -> FALSE
      [] v.t = "bool" -> v.b
      [] v.t = "num" -> v.n # 0
      [] v.t = "str" -> v.s # <<>>
      [] v.t = "nan" -> TRUE

\* Python `a or b`
PyOr(a, b) == IF Truthy(a) THEN a ELSE b

\* dict.get(key, default)
Get(d, key, default) == IF key \in DOMAIN d THEN d[key] ELSE default

\* ------------------------------------------------------------------ characters
LowerChars == <<"a", "b", "c", "d", "e", "f", "g", "h", "i", "j", "k", "l", "m",
                "n", "o", "p", "q", "r", "s", "t", "u", "v", "w", "x", "y", "z">>
UpperChars == <<"A", "B", "C", "D", "E", "F", "G", "H", "I", "J", "K", "L", "M",
                "N", "O", "P", "Q", "R", "S", "T", "U", "V", "W", "X", "Y", "Z">>
DigitChars == <<"0", "1", "2", "3", "4", "5", "6", "7", "8", "9">>
SpaceChars == {" ", "\t"}

Range(f) == {f[i] : i \in DOMAIN f}
IsSpace(c) == c \in SpaceChars
IsLower(c) == c \in Range(LowerChars)
IsUpper(c) == c \in Range(UpperChars)
IsDigit(c) == c \in Range(DigitChars)

\* str.upper() and str.lower() on one character
UpperChar(c) ==
    IF IsLower(c) THEN UpperChars[CHOOSE i \in DOMAIN LowerChars : LowerChars[i] = c] ELSE c
LowerChar(c) ==
    IF IsUpper(c) THEN LowerChars[CHOOSE i \in DOMAIN UpperChars : UpperChars[i] = c] ELSE c
Upper(s) == [i \in DOMAIN s |-> UpperChar(s[i])]
Lower(s) == [i \in DOMAIN s |-> LowerChar(s[i])]

\* str.strip()
RECURSIVE LStrip(_)
LStrip(s) == IF s # <<>> /\ IsSpace(Head(s)) THEN LStrip(Tail(s)) ELSE s
RECURSIVE RStrip(_)
RStrip(s) ==
    IF s # <<>> /\ IsSpace(s[Len(s)]) THEN RStrip(SubSeq(s, 1, Len(s) - 1)) ELSE s
Strip(s) == RStrip(LStrip(s))

\* str.replace(pat, "") : every non-overlapping occurrence, left to right
RECURSIVE RemoveAll(_, _)
RemoveAll(s, pat) ==
    IF Len(s) < Len(pat) THEN s
    ELSE IF SubSeq(s, 1, Len(pat)) = pat
         THEN RemoveAll(SubSeq(s, Len(pat) + 1, Len(s)), pat)
         ELSE <<Head(s)>> \o RemoveAll(Tail(s), pat)

\* decimal digits of a natural number, as str(int) and f"{int}" write it
RECURSIVE Digits(_)
Digits(k) ==
    IF k < 10 THEN <<DigitChars[k + 1]>>
    ELSE Digits(k \div 10) \o <<DigitChars[(k % 10) + 1]>>

\* the fractional digits of a float's repr: thousandths without trailing zeros,
\* at least one digit
FracDigits(m) ==
    IF m % 100 = 0 THEN <<DigitChars[(m \div 100) + 1]>>
    ELSE IF m % 10 = 0
         THEN <<DigitChars[(m \div 100) + 1], DigitChars[((m \div 10) % 10) + 1]>>
         ELSE <<DigitChars[(m \div 100) + 1], DigitChars[((m \div 10) % 10) + 1],
                DigitChars[(m % 10) + 1]>>
FloatRepr(x) ==
    LET a == IF x < 0 THEN -x ELSE x
    IN (IF x < 0 THEN <<"-">> ELSE <<>>) \o Digits(a \div Scale) \o <<".">>
           \o FracDigits(a % Scale)

\* Python str(v)
PyStr(v) ==
    CASE v.t = "str" -> v.s
      [] v.t = "nan" -> <<"n", "a", "n">>
      [] v.t = "none" -> <<"N", "o", "n", "e">>
      [] v.t = "bool" -> IF v.b THEN <<"T", "r", "u", "e">> ELSE <<"F", "a", "l", "s", "e">>
      [] v.t = "num" -> FloatRepr(v.n)

\* ================================================================== vehicles
\* import_vehicles.py

\* re.sub(r'[^a-zA-Z0-9\s]', '', name): the characters the pattern keeps
IsIdChar(c) == IsLower(c) \/ IsUpper(c) \/ IsDigit(c) \/ IsSpace(c)
RemoveNonIdChars(s) == SelectSeq(s, IsIdChar)

\* re.sub(r'\s+', '_', s)
RECURSIVE CollapseSpaces(_)
CollapseSpaces(s) ==
    IF s = <<>> THEN <<>>
    ELSE IF IsSpace(Head(s)) THEN <<"_">> \o CollapseSpaces(LStrip(s))
         ELSE <<Head(s)>> \o CollapseSpaces(Tail(s))

generate_vehicle_id_keepcase(name) == CollapseSpaces(Strip(RemoveNonIdChars(name)))
generate_vehicle_id(name) == Upper(CollapseSpaces(Strip(RemoveNonIdChars(name))))

category_map ==
    { [key |-> <<"R", "o", "c", "k", " ", "T", "r", "u", "c", "k", "s">>,
       main |-> <<"R", "o", "c", "k", " ", "T", "r", "u", "c", "k">>,
       sub |-> <<"H", "a", "u", "l", " ", "T", "r", "u", "c", "k">>],
      [key |-> <<"E", "x", "c", "a", "v", "a", "t", "o", "r", "s">>,
       main |-> <<"E", "x", "c", "a", "v", "a", "t", "o", "r">>,
       sub |-> <<"C", "r", "a", "w", "l", "e", "r">>],
      [key |-> <<"L", "o", "a", "d", "e", "r", "s">>,
       main |-> <<"L", "o", "a", "d", "e", "r">>,
       sub |-> <<"W", "h", "e", "e", "l", " ", "L", "o", "a", "d", "e", "r">>],
      [key |-> <<"D", "o", "z", "e", "r", "s">>,
       main |-> <<"D", "o", "z", "e", "r">>,
       sub |-> <<"C", "r", "a", "w", "l", "e", "r", " ", "D", "o", "z", "e", "r">>],
      [key |-> <<"G", "r", "a", "d", "e", "r", "s">>,
       main |-> <<"G", "r", "a", "d", "e", "r">>,
       sub |-> <<"M", "o", "t", "o", "r", " ", "G", "r", "a", "d", "e", "r">>],
      [key |-> <<"P", "a", "v", "i", "n", "g">>,
       main |-> <<"P", "a", "v", "i", "n", "g">>,
       sub |-> <<"R", "o", "a", "d", " ", "E", "q", "u", "i", "p", "m", "e", "n", "t">>],
      [key |-> <<"T", "r", "u", "c", "k", "s">>,
       main |-> <<"T", "r", "u", "c", "k">>,
       sub |-> <<"U", "t", "i", "l", "i", "t", "y", " ", "T", "r", "u", "c", "k">>],
      [key |-> <<"F", "u", "e", "l", " ", "T", "r", "u", "c", "k", "s">>,
       main |-> <<"T", "r", "u", "c", "k">>,
       sub |-> <<"F", "u", "e", "l", " ", "T", "r", "u", "c", "k">>],
      [key |-> <<"F", "l", "y", "i", "n", "g">>,
       main |-> <<"D", "r", "o", "n", "e">>,
       sub |-> <<"U", "A", "V">>],
      [key |-> <<"T", "u", "n", "n", "e", "l", "e", "r">>,
       main |-> <<"T", "u", "n", "n", "e", "l", "e", "r">>,
       sub |-> <<"U", "n", "d", "e", "r", "g", "r", "o", "u", "n", "d">>] }

VehiclesPrefix == <<"V", "e", "h", "i", "c", "l", "e", "s", " ", "-", " ">>

\* parse_category(category): the pair (main, sub)
parse_category(category) ==
    IF IsNa(category)
    THEN [main |-> <<"U", "n", "k", "n", "o", "w", "n">>, sub |-> <<>>]
    ELSE LET main == Strip(RemoveAll(category.s, VehiclesPrefix))
         IN IF \E e \in category_map : e.key = main
            THEN LET e == CHOOSE e \in category_map : e.key = main
                 IN [main |-> e.main, sub |-> e.sub]
            ELSE [main |-> main, sub |-> <<>>]

truck_types ==
    { <<"R", "o", "c", "k", " ", "T", "r", "u", "c", "k">>, <<"T", "r", "u", "c", "k">> }

determine_capacity_type_swapped(category_main) ==
    IF category_main \in truck_types THEN "bucket" ELSE "truck"
determine_capacity_type(category_main) ==
    IF category_main \in truck_types THEN "truck" ELSE "bucket"

\* float(cell) if pd.notna(cell) else 0.0
FloatOrZero(cell) == IF NotNa(cell) THEN cell.n ELSE 0

\* the while loop of convert_excel_to_vehicles that makes the id unused
RECURSIVE DedupLoop(_, _, _, _)
DedupLoop(vehicle_id, original_id, counter, seen) ==
    IF vehicle_id \in seen
    THEN DedupLoop(original_id \o <<"_">> \o Digits(counter), original_id, counter + 1, seen)
    ELSE vehicle_id

UniqueId_once(original_id, seen) ==
    IF original_id \in seen THEN original_id \o <<"_">> \o Digits(2) ELSE original_id
UniqueId(original_id, seen) == DedupLoop(original_id, original_id, 2, seen)

\* the body of the for loop of convert_excel_to_vehicles: one row to one record
ConvertVehicleRow(row, seen) ==
    LET name == Strip(PyStr(row["Vehicle Name"]))
        vehicle_id == UniqueId(generate_vehicle_id(name), seen)
        cat == parse_category(row["Category"])
        capacity_type == determine_capacity_type(cat.main)
        capacity_m3 == FloatOrZero(row["Capacity (m3)"])
    IN [id |-> Str(vehicle_id),
        name |-> Str(name),
        category_main |-> Str(cat.main),
        category_sub |-> Str(cat.sub),
        bucket_capacity_m3 |-> Num(IF capacity_type = "bucket" THEN capacity_m3 ELSE 0),
        truck_capacity_m3 |-> Num(IF capacity_type = "truck" THEN capacity_m3 ELSE 0),
        tank_capacity_l |-> Num(FloatOrZero(row["Fuel Capacity (L)"])),
        fuel_use_l_per_hour |-> Num(FloatOrZero(row["Fuel Use (L/Hour)"])),
        purchase_price |-> Num(FloatOrZero(row["Purchase Price"])),
        active |-> Num(Scale),
        notes |-> Str(IF NotNa(row["Notes"]) THEN PyStr(row["Notes"]) ELSE <<>>)]

\* the keys import_to_database reads with v[...]: a record that lacks one raises
\* KeyError, which is no sqlite3.Error
VehicleDbKeys ==
    {"id", "name", "category_main", "category_sub", "bucket_capacity_m3",
     "truck_capacity_m3", "tank_capacity_l", "fuel_use_l_per_hour", "purchase_price",
     "notes"}
VehicleBindRaises(v) == ~(VehicleDbKeys \subseteq DOMAIN v)

\* the parameters of the INSERT OR REPLACE of import_to_database
VehicleDbRow(v) ==
    [id |-> v.id,
     name |-> v.name,
     category_main |-> v.category_main,
     category_sub |-> v.category_sub,
     bucket_capacity_m3 |-> v.bucket_capacity_m3,
     truck_capacity_m3 |-> v.truck_capacity_m3,
     tank_capacity_l |-> v.tank_capacity_l,
     fuel_use_l_per_hour |-> v.fuel_use_l_per_hour,
     purchase_price |-> v.purchase_price,
     active |-> Get(v, "active", Num(Scale)),
     notes |-> v.notes]

\* the INSERT raises sqlite3.Error: name is declared NOT NULL
VehicleInsertFails(v) == v.name.t = "none"

\* INSERT OR REPLACE on the primary key id: a row with the same id is removed
InsertOrReplace(table, row) == SelectSeq(table, LAMBDA r : r.id # row.id) \o <<row>>

\* one entry of the record of the calls import_to_database makes on the
\* connection: CREATE TABLE, DELETE, one pass of the insert loop, commit
DbEvent(op, rec, outcome) == [op |-> op, rec |-> rec, outcome |-> outcome]

\* ================================================================== items
\* import_items.py

\* sell_rate, in hundredths (0.70)
SellRatePercent == 70

calculate_sell_price_full(buy_price) == buy_price
calculate_sell_price(buy_price) == (buy_price * SellRatePercent) \div 100

\* Python round(): to the nearest integer, a tie to the even one; the result
\* counts whole units
RoundHalfEven(price) ==
    LET q == price \div Scale
        r == price % Scale
    IN IF 2 * r < Scale THEN q
       ELSE IF 2 * r > Scale THEN q + 1
            ELSE IF q % 2 = 0 THEN q ELSE q + 1

round_display_price_halfup(price) == (2 * price + Scale) \div (2 * Scale)
round_display_price(price) == RoundHalfEven(price)

\* df.columns = [col.lower().replace(' ', '_').replace('-', '_') ...], on the
\* headers the modelled spreadsheets use
NormalizeColumn(col) ==
    CASE col = "Name" -> "name"
      [] col = "Item Name" -> "item_name"
      [] col = "Buy Price" -> "buy_price"
      [] col = "Buy-Price" -> "buy_price"
      [] col = "Price" -> "price"
      [] col = "Sell Price" -> "sell_price"
      [] col = "SellPrice" -> "sellprice"
      [] col = "Category" -> "category"
      [] col = "Main Category" -> "main_category"
      [] col = "Sub-Category" -> "sub_category"
      [] col = "Weight" -> "weight"
      [] col = "Can Buy" -> "can_buy"
      [] col = "Purchasable" -> "purchasable"
      [] col = "Sellable" -> "sellable"
      [] col = "Craftable" -> "craftable"
      [] col = "Code" -> "code"
      [] col = "Notes" -> "notes"

\* the alias lists of load_from_excel, in the order get_column tries them
NameAliases == <<"name", "item_name", "itemname">>
CategoryMainAliases == <<"category", "category_main", "categorymain", "main_category">>
CategorySubAliases == <<"sub_category", "category_sub", "categorysub", "subcategory">>
BuyPriceAliases == <<"buy_price", "buyprice", "price", "cost">>
SellPriceAliases == <<"sell_price", "sellprice">>
WeightAliases == <<"weight", "item_weight">>
PurchasableAliases == <<"can_buy", "purchasable", "is_purchasable", "ispurchasable", "buyable">>
SellableAliases == <<"can_sell", "sellable", "is_sellable", "issellable">>
CraftableAliases == <<"craftable", "is_craftable", "iscraftable", "can_craft">>
CodeAliases == <<"code", "item_code", "itemcode", "id">>
NotesAliases == <<"notes", "note", "description", "desc">>

\* get_column(df, names).iloc[idx]: the cell of this row in the first alias that
\* is a column of the sheet; None (the default series) when no alias is a column.
\* The alias names are lower-case without spaces, so get_column's own
\* name.lower().replace(' ', '_') leaves them as they are.
get_column(cols, row, names) ==
    IF \E i \in DOMAIN names : names[i] \in cols
    THEN row[names[CHOOSE i \in DOMAIN names :
                     names[i] \in cols /\ \A j \in 1..(i - 1) : names[j] \notin cols]]
    ELSE None

\* the strings parse_bool takes for true; the fifth is the three characters
\* U+00E2 U+0153 U+201C that the source file holds
TrueWords ==
    { <<"t", "r", "u", "e">>, <<"y", "e", "s">>, <<"1">>, <<"y">>,
      <<"U+00E2", "U+0153", "U+201C">>, <<"x">> }

parse_bool(val, default) ==
    IF IsNa(val) THEN default
    ELSE IF val.t = "bool" THEN val.b
    ELSE IF val.t = "num" THEN val.n # 0
    ELSE Strip(Lower(PyStr(val))) \in TrueWords

NanText == <<"n", "a", "n">>

\* the `continue` of load_from_excel: the row emits no record
ExcelRowSkipped(cols, row) ==
    LET name == PyStr(get_column(cols, row, NameAliases))
    IN name = NanText \/ Strip(name) = <<>>

\* str(cell), '' when that is 'nan'  (category_main, category_sub)
TextOrEmpty(cell) == IF PyStr(cell) = NanText THEN <<>> ELSE PyStr(cell)
\* str(cell) if pd.notna(cell) and str(cell) != 'nan' else ''  (code, notes)
TextIfPresent(cell) == IF NotNa(cell) /\ PyStr(cell) # NanText THEN PyStr(cell) ELSE <<>>

\* the body of the for loop of load_from_excel, for a row that is not skipped
ExcelItem(cols, row) ==
    LET name == PyStr(get_column(cols, row, NameAliases))
        category_main == TextOrEmpty(get_column(cols, row, CategoryMainAliases))
        category_sub == TextOrEmpty(get_column(cols, row, CategorySubAliases))
        buy_price_val == get_column(cols, row, BuyPriceAliases)
        buy_price_internal == IF NotNa(buy_price_val) THEN buy_price_val.n ELSE 0
        sell_price_val == get_column(cols, row, SellPriceAliases)
        sell_price_internal ==
            IF NotNa(sell_price_val) THEN sell_price_val.n
            ELSE calculate_sell_price(buy_price_internal)
        weight_val == get_column(cols, row, WeightAliases)
    IN [code |-> Str(TextIfPresent(get_column(cols, row, CodeAliases))),
        name |-> Str(Strip(name)),
        category_main |-> Str(Strip(category_main)),
        category_sub |-> Str(Strip(category_sub)),
        buy_price_internal |-> Num(buy_price_internal),
        buy_price_display |-> Num(round_display_price(buy_price_internal) * Scale),
        sell_price_internal |-> Num(sell_price_internal),
        sell_price_display |-> Num(round_display_price(sell_price_internal) * Scale),
        weight |-> Num(IF NotNa(weight_val) THEN weight_val.n ELSE 0),
        is_purchasable |-> Bool(parse_bool(get_column(cols, row, PurchasableAliases), TRUE)),
        is_sellable |-> Bool(parse_bool(get_column(cols, row, SellableAliases), TRUE)),
        is_craftable |-> Bool(parse_bool(get_column(cols, row, CraftableAliases), FALSE)),
        pricing_group |-> Str(<<"B", "a", "s", "e", "7", "0">>),
        notes |-> Str(Strip(TextIfPresent(get_column(cols, row, NotesAliases))))]

\* ------------------------------------------------------------------ JSON
\* json.dump / json.load on one value: None <-> null, bool <-> true/false,
\* float and int <-> number, str <-> string
ToJson(v) ==
    CASE v.t = "none" -> [t |-> "null", n |-> 0, s |-> <<>>, b |-> FALSE]
      [] v.t = "bool" -> [t |-> "boolean", n |-> 0, s |-> <<>>, b |-> v.b]
      [] v.t = "num" -> [t |-> "number", n |-> v.n, s |-> <<>>, b |-> FALSE]
      [] v.t = "str" -> [t |-> "string", n |-> 0, s |-> v.s, b |-> FALSE]
      [] v.t = "nan" -> [t |-> "NaN", n |-> 0, s |-> <<>>, b |-> FALSE]
FromJson(j) ==
    CASE j.t = "null" -> None
      [] j.t = "boolean" -> Bool(j.b)
      [] j.t = "number" -> Num(j.n)
      [] j.t = "string" -> Str(j.s)
      [] j.t = "NaN" -> NaN
JNull == ToJson(None)
JNum(x) == ToJson(Num(x))
JStr(x) == ToJson(Str(x))
JBool(x) == ToJson(Bool(x))

\* json.dump(records, f) and json.load(f) on a list of objects
JsonDump(records) ==
    [i \in DOMAIN records |-> [k \in DOMAIN records[i] |-> ToJson(records[i][k])]]
JsonLoad(file) ==
    [i \in DOMAIN file |-> [k \in DOMAIN file[i] |-> FromJson(file[i][k])]]

\* float(x), round(x) and x * 0.70 accept a number or a bool; on None or on a
\* text they raise
IsNumber(v) == v.t \in {"num", "bool"}
AsNumber(v) == IF v.t = "bool" THEN (IF v.b THEN Scale ELSE 0) ELSE v.n

JsonBuyInternal(item_data) ==
    PyOr(PyOr(Get(item_data, "buy_price_internal", None), Get(item_data, "buyPrice", None)),
         Get(item_data, "buy_price", Num(0)))
JsonSellSupplied(item_data) ==
    PyOr(PyOr(Get(item_data, "sell_price_internal", None),
              Get(item_data, "sellPriceInternal", None)),
         Get(item_data, "sell_price", None))

\* the object makes load_from_json raise (TypeError / ValueError): the run aborts
JsonItemRaises(item_data) ==
    LET buy_internal == JsonBuyInternal(item_data)
        sell_internal == JsonSellSupplied(item_data)
    IN \/ ~IsNumber(buy_internal)
       \/ sell_internal.t # "none" /\ ~IsNumber(sell_internal)
       \/ ~IsNumber(Get(item_data, "weight", Num(0)))

\* the body of the for loop of load_from_json
JsonItem(item_data) ==
    LET buy_internal == AsNumber(JsonBuyInternal(item_data))
        sell_supplied == JsonSellSupplied(item_data)
        sell_internal ==
            IF sell_supplied.t = "none" THEN calculate_sell_price(buy_internal)
            ELSE AsNumber(sell_supplied)
    IN [code |-> Get(item_data, "code", Str(<<>>)),
        name |-> Get(item_data, "name", Str(<<>>)),
        category_main |->
            PyOr(PyOr(Get(item_data, "category_main", None),
                      Get(item_data, "categoryMain", None)),
                 Get(item_data, "category", Str(<<>>))),
        category_sub |->
            PyOr(Get(item_data, "category_sub", None),
                 Get(item_data, "categorySub", Str(<<>>))),
        buy_price_internal |-> Num(buy_internal),
        buy_price_display |-> Num(round_display_price(buy_internal) * Scale),
        sell_price_internal |-> Num(sell_internal),
        sell_price_display |-> Num(round_display_price(sell_internal) * Scale),
        weight |-> Num(AsNumber(Get(item_data, "weight", Num(0)))),
        is_purchasable |->
            Get(item_data, "is_purchasable", Get(item_data, "isPurchasable", Bool(TRUE))),
        is_sellable |->
            Get(item_data, "is_sellable", Get(item_data, "isSellable", Bool(TRUE))),
        is_craftable |->
            Get(item_data, "is_craftable", Get(item_data, "isCraftable", Bool(FALSE))),
        pricing_group |->
            Get(item_data, "pricing_group",
                Get(item_data, "pricingGroup", Str(<<"B", "a", "s", "e", "7", "0">>))),
        notes |-> Get(item_data, "notes", Str(<<>>))]

\* items import_to_database: the tuple bound to the INSERT statement
ItemDbRow(item) ==
    [code |-> item.code,
     name |-> item.name,
     category_main |-> item.category_main,
     category_sub |-> item.category_sub,
     buy_price_internal |-> item.buy_price_internal,
     buy_price_display |-> item.buy_price_display,
     sell_price_internal |-> item.sell_price_internal,
     sell_price_display |-> item.sell_price_display,
     weight |-> item.weight,
     is_purchasable |-> Num(IF Truthy(item.is_purchasable) THEN Scale ELSE 0),
     is_sellable |-> Num(IF Truthy(item.is_sellable) THEN Scale ELSE 0),
     is_craftable |-> Num(IF Truthy(item.is_craftable) THEN Scale ELSE 0),
     pricing_group |-> item.pricing_group,
     notes |-> item.notes]

\* the INSERT raises sqlite3.Error: name is declared NOT NULL
ItemInsertFails(item) == item.name.t = "none"

\* ================================================================== locations
\* import_locations.py

Separator == <<" ", "-", " ">>

\* `sep in s`, and the position at which the first occurrence of sep starts
Contains(s, sep) == \E i \in 1..(Len(s) - Len(sep) + 1) : SubSeq(s, i, i + Len(sep) - 1) = sep
Find(s, sep) ==
    CHOOSE i \in 1..(Len(s) - Len(sep) + 1) :
        /\ SubSeq(s, i, i + Len(sep) - 1) = sep
        /\ \A j \in 1..(i - 1) : SubSeq(s, j, j + Len(sep) - 1) # sep

\* str.split(sep): the list of the pieces between the occurrences of sep, found
\* left to right
RECURSIVE Split(_, _)
Split(s, sep) ==
    IF ~Contains(s, sep) THEN <<s>>
    ELSE <<SubSeq(s, 1, Find(s, sep) - 1)>>
             \o Split(SubSeq(s, Find(s, sep) + Len(sep), Len(s)), sep)

\* str.rsplit(sep, 1)[0]: what stands before the last occurrence of sep
BeforeLast(s, sep) ==
    LET pieces == Split(s, sep)
    IN SubSeq(s, 1, Len(s) - Len(pieces[Len(pieces)]) - Len(sep))

extract_abbreviation_last(location_name) ==
    IF Contains(location_name, Separator)
    THEN Strip(BeforeLast(location_name, Separator))
    ELSE <<>>
extract_abbreviation(location_name) ==
    IF Contains(location_name, Separator)
    THEN Strip(Split(location_name, Separator)[1])
    ELSE <<>>

\* `" - " in location_name` raises TypeError on a cell that holds no text
ExtractRaises(cell) == cell.t # "str"

\* the code point of a character: Python orders str values by code point
CodePoint(c) ==
    CASE c = "\t" -> 9
      [] c = " " -> 32
      [] c = "-" -> 45
      [] IsDigit(c) -> 47 + (CHOOSE i \in DOMAIN DigitChars : DigitChars[i] = c)
      [] IsUpper(c) -> 64 + (CHOOSE i \in DOMAIN UpperChars : UpperChars[i] = c)
      [] IsLower(c) -> 96 + (CHOOSE i \in DOMAIN LowerChars : LowerChars[i] = c)

\* a < b and a <= b on str values
RECURSIVE StrLess(_, _)
StrLess(a, b) ==
    IF b = <<>> THEN FALSE
    ELSE IF a = <<>> THEN TRUE
    ELSE IF Head(a) # Head(b) THEN CodePoint(Head(a)) < CodePoint(Head(b))
    ELSE StrLess(Tail(a), Tail(b))
StrLessEq(a, b) == a = b \/ StrLess(a, b)

\* DataFrame.drop_duplicates() and Series.unique(): the first occurrence of each
\* value is kept, in the order of the rows
RECURSIVE DropDuplicates(_)
DropDuplicates(rows) ==
    IF rows = <<>> THEN <<>>
    ELSE LET rest == DropDuplicates(SubSeq(rows, 1, Len(rows) - 1))
             last == rows[Len(rows)]
         IN IF \E i \in DOMAIN rest : rest[i] = last THEN rest ELSE Append(rest, last)

\* sort_values('Abbrev') and sorted(): ascending by the text of field key; rows
\* with equal keys keep their order (numpy sorts a frame of up to 16 rows by
\* insertion, sorted() is stable)
InsertSorted(sorted, x) ==
    LET k == Cardinality({i \in DOMAIN sorted : StrLessEq(sorted[i].key, x.key)})
    IN SubSeq(sorted, 1, k) \o <<x>> \o SubSeq(sorted, k + 1, Len(sorted))
RECURSIVE SortByKey(_)
SortByKey(rows) ==
    IF rows = <<>> THEN <<>>
    ELSE InsertSorted(SortByKey(SubSeq(rows, 1, Len(rows) - 1)), rows[Len(rows)])
KeyedByAbbrev(rows) == [i \in DOMAIN rows |-> [key |-> rows[i].Abbrev.s, val |-> rows[i]]]
KeyedByText(rows) == [i \in DOMAIN rows |-> [key |-> rows[i].s, val |-> rows[i]]]
Unkeyed(rows) == [i \in DOMAIN rows |-> rows[i].val]

\* df['Abbrev'] = df['Location'].apply(extract_abbreviation)
WithAbbrev(frame) ==
    [i \in DOMAIN frame |->
        [Location |-> frame[i].Location, Map |-> frame[i].Map, Type |-> frame[i].Type,
         Abbrev |-> Str(extract_abbreviation(frame[i].Location.s))]]

\* df[['Abbrev', 'Map']].drop_duplicates().sort_values('Abbrev')
MapsFrame(frame) ==
    Unkeyed(SortByKey(KeyedByAbbrev(DropDuplicates(
        [i \in DOMAIN frame |-> [Abbrev |-> frame[i].Abbrev, Map |-> frame[i].Map]]))))

\* the loop that fills maps_data, and the dict map_name_to_id it fills: a name
\* that comes again overwrites the id it had
BuildMapsData(maps_df) ==
    [idx \in DOMAIN maps_df |->
        [id |-> Num(idx * Scale), abbrev |-> maps_df[idx].Abbrev, name |-> maps_df[idx].Map]]
LastIndex(names, name) ==
    CHOOSE idx \in DOMAIN names :
        names[idx] = name /\ \A j \in DOMAIN names : names[j] = name => j <= idx
NameToId_from_zero(names) ==
    [name \in Range(names) |-> Num((LastIndex(names, name) - 1) * Scale)]
NameToId(names) ==
    [name \in Range(names) |-> Num(LastIndex(names, name) * Scale)]
BuildMapNameToId(maps_df) == NameToId([idx \in DOMAIN maps_df |-> maps_df[idx].Map])

\* sorted(df['Type'].unique())
TypesSorted(frame) ==
    Unkeyed(SortByKey(KeyedByText(DropDuplicates([i \in DOMAIN frame |-> frame[i].Type]))))

\* the loop that fills types_data and type_name_to_id
BuildTypesData(types_sorted) ==
    [idx \in DOMAIN types_sorted |-> [id |-> Num(idx * Scale), name |-> types_sorted[idx]]]
BuildTypeNameToId(types_sorted) == NameToId(types_sorted)

\* the loop that fills locations_data
BuildLocationsData(frame, map_ids, type_ids) ==
    [idx \in DOMAIN frame |->
        [id |-> Num(idx * Scale),
         name |-> frame[idx].Location,
         map_id |-> map_ids[frame[idx].Map],
         type_id |-> type_ids[frame[idx].Type]]]

\* ================================================================== inputs
\* The spreadsheets and JSON files a run may be given.

ItemFields ==
    {"code", "name", "category_main", "category_sub", "buy_price_internal",
     "buy_price_display", "sell_price_internal", "sell_price_display", "weight",
     "is_purchasable", "is_sellable", "is_craftable", "pricing_group", "notes"}

\* all sequences over S of length at most n
SeqsUpTo(S, n) == UNION {[1..k -> S] : k \in 0..n}

TextCat797F == <<"C", "A", "T", " ", "7", "9", "7", "F">>
TextRockTrucks == <<"R", "o", "c", "k", " ", "T", "r", "u", "c", "k", "s">>
TextFuelTrucks == <<"F", "u", "e", "l", " ", "T", "r", "u", "c", "k", "s">>
TextTrucks == <<"T", "r", "u", "c", "k", "s">>
TextTruck == <<"T", "r", "u", "c", "k">>
TextLoaders == <<"L", "o", "a", "d", "e", "r", "s">>
TextWidgets == <<"W", "i", "d", "g", "e", "t", "s">>
TextDynamite == <<"D", "y", "n", "a", "m", "i", "t", "e">>
TextDrill == <<"D", "r", "i", "l", "l">>
TextTools == <<"T", "o", "o", "l", "s">>

VehicleColumns ==
    {"Vehicle Name", "Category", "Capacity (m3)", "Fuel Capacity (L)",
     "Fuel Use (L/Hour)", "Purchase Price", "Notes"}

VehicleRow(name, category, capacity, fuel, notes) ==
    [c \in VehicleColumns |->
        CASE c = "Vehicle Name" -> name
          [] c = "Category" -> category
          [] c = "Capacity (m3)" -> capacity
          [] c = "Fuel Capacity (L)" -> fuel
          [] c = "Fuel Use (L/Hour)" -> Num(90 * Scale)
          [] c = "Purchase Price" -> Num(250 * Scale)
          [] c = "Notes" -> notes]

\* the names a vehicle sheet may hold beside the plain name of the category rows
\* below: names that differ from it in case, spacing or punctuation only, a name
\* that ends in a numeric suffix, an empty cell
VehicleNameCells ==
    { Str(TextCat797F \o <<"!", "!">>),
      Str(<<"c", "a", "t", " ", "\t", "7", "9", "7", "f">>),
      Str(TextCat797F \o <<" ", "2">>),
      Str(TextCat797F \o <<" ", "!">>),
      NaN }

\* the categories a vehicle sheet may hold, each with a capacity cell
VehicleCategoryCells ==
    { <<NaN, Num(5 * Scale)>>,
      <<Str(TextRockTrucks), Num(5 * Scale)>>,
      <<Str(VehiclesPrefix \o TextFuelTrucks), Num(40 * Scale)>>,
      <<Str(VehiclesPrefix \o TextTrucks), NaN>>,
      <<Str(TextWidgets), Num(5 * Scale)>>,
      <<Str(TextTruck), Num(5 * Scale)>> }

VehicleRows ==
    { VehicleRow(n, Str(<<" ">> \o VehiclesPrefix \o TextLoaders \o <<" ">>), Num(3500),
                 NaN, NaN) : n \in VehicleNameCells }
    \cup
    { VehicleRow(Str(TextCat797F), c[1], c[2], Num(400 * Scale),
                 Str(<<"s", "p", "a", "r", "e">>)) : c \in VehicleCategoryCells }

\* the objects a vehicle JSON file may hold
JsonVehicle(id, bucket, truck) ==
    [id |-> JStr(id),
     name |-> JStr(TextCat797F),
     category_main |-> JStr(TextTruck),
     category_sub |-> JStr(<<>>),
     bucket_capacity_m3 |-> JNum(bucket),
     truck_capacity_m3 |-> JNum(truck),
     tank_capacity_l |-> JNum(0),
     fuel_use_l_per_hour |-> JNum(0),
     purchase_price |-> JNum(0),
     active |-> JNum(Scale),
     notes |-> JStr(<<>>)]
\* a record whose name is null, and a record without the key notes
JsonVehicleNoName == [JsonVehicle(<<"D">>, 0, 0) EXCEPT !.name = JNull]
JsonVehicleNoNotes ==
    [k \in DOMAIN JsonVehicle(<<"E">>, 0, 0) \ {"notes"} |-> JsonVehicle(<<"E">>, 0, 0)[k]]
JsonVehicleInputs ==
    { JsonVehicle(<<"A">>, 0, 5 * Scale),
      JsonVehicle(<<"B">>, 3500, 0),
      JsonVehicle(<<"C">>, 3500, 5 * Scale),
      JsonVehicleNoName,
      JsonVehicleNoNotes }

\* item spreadsheets: the headers of the sheet and the rows it may hold, each
\* row a function from the normalized column names to the cells
ItemSheetPrices ==
    [headers |-> {"Name", "Buy Price", "Sell Price"},
     rows |-> { ("name" :> Str(TextDynamite)) @@ ("buy_price" :> b) @@ ("sell_price" :> s) :
                  b \in {NaN, Num(100 * Scale), Num(2500)},
                  s \in {NaN, Num(0), Num(3500)} }
              \cup
              { ("name" :> NaN) @@ ("buy_price" :> Num(100 * Scale)) @@ ("sell_price" :> NaN) }]
ItemSheetAliases ==
    [headers |-> {"Name", "Buy-Price", "Price"},
     rows |-> { ("name" :> Str(TextDynamite)) @@ ("buy_price" :> b) @@ ("price" :> p) :
                  b \in {NaN, Num(100 * Scale)},
                  p \in {NaN, Num(50 * Scale)} }]
ItemSheetNoName ==
    [headers |-> {"Buy Price"},
     rows |-> { ("buy_price" :> b) : b \in {NaN, Num(3500)} }]
ItemSheetFlags ==
    [headers |-> {"Item Name", "Can Buy", "Purchasable", "Sellable", "Craftable"},
     rows |-> { ("item_name" :> Str(TextDrill)) @@ ("can_buy" :> f)
                  @@ ("purchasable" :> Str(<<"n", "o">>)) @@ ("sellable" :> NaN)
                  @@ ("craftable" :> NaN) :
                  f \in {NaN, Bool(TRUE), Bool(FALSE), Num(0), Num(2 * Scale),
                         Str(<<" ", "Y", "e", "s", " ">>), Str(<<"n", "o">>),
                         Str(<<"U+2713">>), Str(<<"X">>)} }
              \cup
              { ("item_name" :> Str(TextDrill)) @@ ("can_buy" :> NaN)
                  @@ ("purchasable" :> NaN) @@ ("sellable" :> Str(<<"n", "o">>))
                  @@ ("craftable" :> Str(<<"Y">>)) }]
ItemSheetTexts ==
    [headers |-> {"Name", "Category", "Main Category", "Weight", "Code", "Notes", "SellPrice"},
     rows |-> { ("name" :> n) @@ ("category" :> c) @@ ("main_category" :> Str(<<"O", "r", "e">>))
                  @@ ("weight" :> w) @@ ("code" :> Str(<<"D", "-", "1">>))
                  @@ ("notes" :> Str(<<" ", "f", "r", "a", "g", "i", "l", "e", " ">>))
                  @@ ("sellprice" :> Num(70 * Scale)) :
                  n \in {Str(<<" ", " ">>), Str(<<" ">> \o TextDrill \o <<" ">>)},
                  c \in {NaN, Str(<<" ">> \o TextTools \o <<" ">>)},
                  w \in {NaN, Num(1500)} }]
ItemSheets ==
    {ItemSheetPrices, ItemSheetAliases, ItemSheetNoName, ItemSheetFlags, ItemSheetTexts}

NormalizedColumns(headers) == {NormalizeColumn(h) : h \in headers}
\* the rows a sheet with these (normalized) columns may hold
ExcelRows(cols) ==
    UNION {sh.rows : sh \in {x \in ItemSheets : NormalizedColumns(x.headers) = cols}}

\* the objects an item JSON file may hold
JsonItemInputs ==
    { ("name" :> JStr(TextDynamite)) @@ ("buy_price" :> JNum(100 * Scale)),
      ("name" :> JStr(TextDynamite)) @@ ("buy_price_internal" :> JNum(0))
          @@ ("buyPrice" :> JNum(50 * Scale)),
      ("name" :> JStr(<<>>)) @@ ("buy_price" :> JNum(2500)),
      ("buy_price" :> JNum(3500)) @@ ("sell_price" :> JNum(500)),
      ("name" :> JStr(TextDrill)) @@ ("buy_price" :> JNum(100 * Scale))
          @@ ("sell_price_internal" :> JNum(0)),
      ("name" :> JStr(TextDrill)) @@ ("is_sellable" :> JStr(<<"n", "o">>))
          @@ ("is_purchasable" :> JNull) @@ ("isCraftable" :> JBool(TRUE)),
      ("name" :> JStr(TextDrill)) @@ ("buy_price" :> JNull),
      ("name" :> JNull) @@ ("category_main" :> JStr(<<>>)) @@ ("category" :> JStr(TextTools))
          @@ ("weight" :> JNum(1500)),
      ("name" :> JStr(<<" ">>)) @@ ("is_craftable" :> JBool(FALSE))
          @@ ("sell_price" :> JNum(0)) }

\* a row the items table may hold before the import
TextArcMainBase == <<"A", "R", "C", " ", "-", " ", "M", "a", "i", "n", " ", "B", "a", "s", "e">>
TextMainBase == <<"M", "a", "i", "n", " ", "B", "a", "s", "e">>
TextArcPitNorth ==
    <<"A", "R", "C", " ", "-", " ", "P", "i", "t", " ", "-", " ", "N", "o", "r", "t", "h">>
TextBwMine == <<" ", "B", "W", " ", " ", "-", " ", "M", "i", "n", "e">>
TextQuarry1 == <<"Q", "u", "a", "r", "r", "y", "-", "1">>
TextCanQuarry == <<"C", "A", "N", " ", "-", " ", "Q", "u", "a", "r", "r", "y">>
TextDashDepot == <<" ", "-", " ", "D", "e", "p", "o", "t">>
TextArctic == <<"A", "r", "c", "t", "i", "c">>
TextBadwater == <<"B", "a", "d", "w", "a", "t", "e", "r">>
TextCanyon == <<"C", "a", "n", "y", "o", "n">>
TextBase == <<"B", "a", "s", "e">>
TextMine == <<"M", "i", "n", "e">>
TextDepotLower == <<"d", "e", "p", "o", "t">>

LocationRow(location, map, type) ==
    [Location |-> location, Map |-> Str(map), Type |-> Str(type)]

\* the rows a location sheet may hold: names with one separator, with none, with
\* several, with the separator at the start, with blanks around the prefix, with a
\* hyphen that is no separator; one map under two prefixes; a type in lower case;
\* an empty Location cell
LocationRows ==
    { LocationRow(Str(TextArcMainBase), TextArctic, TextBase),
      LocationRow(Str(TextMainBase), TextArctic, TextBase),
      LocationRow(Str(TextArcPitNorth), TextArctic, TextMine),
      LocationRow(Str(TextBwMine), TextBadwater, TextMine),
      LocationRow(Str(TextQuarry1), TextCanyon, TextDepotLower),
      LocationRow(Str(TextCanQuarry), TextCanyon, TextBase),
      LocationRow(Str(TextDashDepot), TextCanyon, TextDepotLower),
      LocationRow(NaN, TextArctic, TextBase) }

OldItemDbRow ==
    ItemDbRow(JsonItem(("name" :> Str(<<"O", "l", "d">>)) @@ ("buy_price" :> Num(Scale))))
\* the row the vehicles table holds before the run
OldVehicleDbRow == VehicleDbRow(JsonLoad(<<JsonVehicle(<<"A">>, 3500, 0)>>)[1])

\* ================================================================== state
VARIABLES
    tool,          \* the script that runs: "vehicles", "items" or "locations"
    pc,            \* where main() is: "start", "excel" (inside the row loop of the
                   \* spreadsheet loader), "loaded", "exported", "done", "reloaded"
                   \* (a later run has loaded the exported file), "crashed"
    loader,        \* the loader that produced the records: "none", "excel", "json"
    columns,       \* items: df.columns after normalization
    vehicles,      \* the list convert_excel_to_vehicles / load_from_json builds
    seen_ids,      \* the set seen_ids of convert_excel_to_vehicles
    items,         \* the list load_from_excel / load_from_json builds
    origin,        \* for each record of vehicles / items, the row or object it was made from
    json_file,     \* the output JSON file: [written, data]
    exported,      \* the records as they were when json_file was written
    db,            \* the rows of the database table after import_to_database
    df,            \* locations: the frame pd.read_excel returns, a list of rows
    maps_data,     \* locations: the list written to maps.json
    map_name_to_id,    \* locations: the dict from a map name to its id
    types_data,    \* locations: the list written to location_types.json
    type_name_to_id,   \* locations: the dict from a type name to its id
    locations_data,    \* locations: the list written to locations.json
    loc_files,     \* locations: the three JSON files, once written
    first_run,     \* locations: the files an earlier run on the same sheet wrote
    clear_existing,    \* import_to_database: its argument
    db_log,        \* import_to_database: the calls made on the connection, in order
    returned       \* import_to_database: <<the value returned>>, <<>> when it did not return

locvars == <<df, maps_data, map_name_to_id, types_data, type_name_to_id, locations_data,
             loc_files, first_run>>
dbvars == <<clear_existing, db_log, returned>>
vars == <<tool, pc, loader, columns, vehicles, seen_ids, items, origin, json_file, exported, db,
          locvars, dbvars>>

Init ==
    /\ tool \in {"vehicles", "items", "locations"}
    /\ pc = "start"
    /\ loader = "none"
    /\ columns = {}
    /\ vehicles = <<>>
    /\ seen_ids = {}
    /\ items = <<>>
    /\ origin = <<>>
    /\ json_file = [written |-> FALSE, data |-> <<>>]
    /\ exported = <<>>
    /\ db = <<>>
    /\ df = <<>>
    /\ maps_data = <<>>
    /\ map_name_to_id = <<>>
    /\ types_data = <<>>
    /\ type_name_to_id = <<>>
    /\ locations_data = <<>>
    /\ loc_files = <<>>
    /\ first_run = <<>>
    /\ clear_existing = TRUE
    /\ db_log = <<>>
    /\ returned = <<>>

\* ------------------------------------------------------------------ vehicles
\* convert_excel_to_vehicles: one pass of the for loop, on the next row of the sheet
VehConvertRow ==
    /\ tool = "vehicles"
    /\ pc \in {"start", "excel"}
    /\ Len(vehicles) < MaxVehicleRows
    /\ \E row \in VehicleRows :
          LET vehicle == ConvertVehicleRow(row, seen_ids)
          IN /\ seen_ids' = seen_ids \cup {vehicle.id.s}
             /\ vehicles' = Append(vehicles, vehicle)
             /\ origin' = Append(origin, row)
    /\ pc' = "excel"
    /\ loader' = "excel"
    /\ UNCHANGED <<locvars, dbvars, tool, columns, items, json_file, exported, db>>

\* convert_excel_to_vehicles: the sheet has no more rows, the list is returned
VehConvertReturn ==
    /\ tool = "vehicles"
    /\ pc \in {"start", "excel"}
    /\ pc' = "loaded"
    /\ loader' = "excel"
    /\ UNCHANGED <<locvars, dbvars, tool, columns, vehicles, seen_ids, items, origin, json_file, exported, db>>

\* import_vehicles.load_from_json: the file's list is returned as it is
VehLoadFromJson ==
    /\ tool = "vehicles"
    /\ pc = "start"
    /\ \E file \in SeqsUpTo(JsonVehicleInputs, MaxVehicleRows) :
          /\ vehicles' = JsonLoad(file)
          /\ origin' = JsonLoad(file)
    /\ pc' = "loaded"
    /\ loader' = "json"
    /\ UNCHANGED <<locvars, dbvars, tool, columns, seen_ids, items, json_file, exported, db>>

\* import_vehicles.export_to_json
VehExportToJson ==
    /\ tool = "vehicles"
    /\ pc = "loaded"
    /\ json_file' = [written |-> TRUE, data |-> JsonDump(vehicles)]
    /\ exported' = vehicles
    /\ pc' = "exported"
    /\ UNCHANGED <<locvars, dbvars, tool, loader, columns, vehicles, seen_ids, items, origin, db>>

\* ------------------------------------------------------------------ items
\* load_from_excel: pd.read_excel and the normalization of the column names
ItemReadExcel ==
    /\ tool = "items"
    /\ pc = "start"
    /\ \E sh \in ItemSheets : columns' = NormalizedColumns(sh.headers)
    /\ pc' = "excel"
    /\ loader' = "excel"
    /\ UNCHANGED <<locvars, dbvars, tool, vehicles, seen_ids, items, origin, json_file, exported, db>>

\* load_from_excel: one pass of the for loop, on the next row of the sheet
ItemLoadExcelRow ==
    /\ tool = "items"
    /\ pc = "excel"
    /\ Len(origin) < MaxItemRows
    /\ \E row \in ExcelRows(columns) :
          IF ExcelRowSkipped(columns, row)
          THEN /\ items' = items
               /\ origin' = Append(origin, [row |-> row, emitted |-> FALSE])
          ELSE /\ items' = Append(items, ExcelItem(columns, row))
               /\ origin' = Append(origin, [row |-> row, emitted |-> TRUE])
    /\ UNCHANGED <<locvars, dbvars, tool, pc, loader, columns, vehicles, seen_ids, json_file, exported, db>>

\* load_from_excel: the sheet has no more rows, the list is returned
ItemLoadExcelReturn ==
    /\ tool = "items"
    /\ pc = "excel"
    /\ pc' = "loaded"
    /\ UNCHANGED <<locvars, dbvars, tool, loader, columns, vehicles, seen_ids, items, origin, json_file,
                   exported, db>>

\* import_items.load_from_json on a list of objects: the list it returns, or the
\* exception of the first object that raises
LoadItemsFromJson(data) == [i \in DOMAIN data |-> JsonItem(data[i])]
JsonDataRaises(data) == \E i \in DOMAIN data : JsonItemRaises(data[i])

\* import_items.load_from_json on an input file
ItemLoadFromJson ==
    /\ tool = "items"
    /\ pc = "start"
    /\ \E file \in SeqsUpTo(JsonItemInputs, MaxItemRows) :
          LET data == JsonLoad(file)
          IN IF JsonDataRaises(data)
             THEN /\ pc' = "crashed"
                  /\ UNCHANGED <<items, origin>>
             ELSE /\ pc' = "loaded"
                  /\ items' = LoadItemsFromJson(data)
                  /\ origin' = [i \in DOMAIN data |-> [row |-> data[i], emitted |-> TRUE]]
    /\ loader' = "json"
    /\ UNCHANGED <<locvars, dbvars, tool, columns, vehicles, seen_ids, json_file, exported, db>>

\* import_items.export_to_json
ItemExportToJson ==
    /\ tool = "items"
    /\ pc = "loaded"
    /\ json_file' = [written |-> TRUE, data |-> JsonDump(items)]
    /\ exported' = items
    /\ pc' = "exported"
    /\ UNCHANGED <<locvars, dbvars, tool, loader, columns, vehicles, seen_ids, items, origin, db>>

\* a later run of import_items.py on the exported file: load_from_json
ItemReloadExported ==
    /\ tool = "items"
    /\ pc = "exported"
    /\ LET data == JsonLoad(json_file.data)
       IN IF JsonDataRaises(data)
          THEN /\ pc' = "crashed"
               /\ UNCHANGED <<items, origin>>
          ELSE /\ pc' = "reloaded"
               /\ items' = LoadItemsFromJson(data)
               /\ origin' = [i \in DOMAIN data |-> [row |-> data[i], emitted |-> TRUE]]
    /\ loader' = "json"
    /\ UNCHANGED <<locvars, dbvars, tool, columns, vehicles, seen_ids, json_file, exported, db>>

\* ------------------------------------------------------------------ import_to_database
\* the rows the INSERT loop of import_to_database adds, in order: a record whose
\* INSERT raises is skipped
RECURSIVE InsertedRows(_)
InsertedRows(records) ==
    IF records = <<>> THEN <<>>
    ELSE (IF ItemInsertFails(Head(records)) THEN <<>> ELSE <<ItemDbRow(Head(records))>>)
             \o InsertedRows(Tail(records))

\* the calls import_to_database makes before the insert loop: CREATE TABLE IF NOT
\* EXISTS, and DELETE if clear_existing
OpenEvents(clear) ==
    <<DbEvent("create", 0, "ok")>> \o (IF clear THEN <<DbEvent("delete", 0, "ok")>> ELSE <<>>)

\* the passes of the insert loop of import_items.import_to_database: a
\* sqlite3.Error is caught and printed
ItemInsertEvents(records) ==
    [k \in DOMAIN records |->
        DbEvent("attempt", k, IF ItemInsertFails(records[k]) THEN "error" ELSE "ok")]

\* import_items.import_to_database on a table that holds one earlier row
ItemImportToDatabase ==
    /\ tool = "items"
    /\ pc \in {"loaded", "exported"}
    /\ \E clear \in BOOLEAN :
          /\ clear_existing' = clear
          /\ db' = (IF clear THEN <<>> ELSE <<OldItemDbRow>>) \o InsertedRows(items)
          /\ db_log' = OpenEvents(clear) \o ItemInsertEvents(items)
                           \o <<DbEvent("commit", 0, "ok")>>
    /\ returned' = <<Len(InsertedRows(items))>>
    /\ pc' = "done"
    /\ UNCHANGED <<locvars, tool, loader, columns, vehicles, seen_ids, items, origin,
                   json_file, exported>>

\* the records the insert loop of import_vehicles.import_to_database reaches: all
\* of them, or those up to the first whose v[...] raises KeyError
ReachedVehicles(records) ==
    LET raising == {k \in DOMAIN records : VehicleBindRaises(records[k])}
    IN IF raising = {} THEN Len(records)
       ELSE CHOOSE k \in raising : \A j \in raising : k <= j

\* the passes of the insert loop of import_vehicles.import_to_database: a
\* sqlite3.Error is caught and printed, a KeyError leaves the loop
VehicleInsertEvents(records) ==
    [k \in 1..ReachedVehicles(records) |->
        DbEvent("attempt", k,
                IF VehicleBindRaises(records[k]) THEN "raised"
                ELSE IF VehicleInsertFails(records[k]) THEN "error" ELSE "ok")]

\* the table after the insert loop has gone through records
RECURSIVE VehicleInsertAll(_, _)
VehicleInsertAll(table, records) ==
    IF records = <<>> THEN table
    ELSE VehicleInsertAll(IF VehicleInsertFails(Head(records)) THEN table
                          ELSE InsertOrReplace(table, VehicleDbRow(Head(records))),
                          Tail(records))

\* import_vehicles.import_to_database on a table that holds one earlier row; when
\* a KeyError ends the run nothing was committed and the table holds what it held
VehImportToDatabase ==
    /\ tool = "vehicles"
    /\ pc \in {"loaded", "exported"}
    /\ \E clear \in BOOLEAN :
          /\ clear_existing' = clear
          /\ IF \E k \in DOMAIN vehicles : VehicleBindRaises(vehicles[k])
             THEN /\ db' = <<OldVehicleDbRow>>
                  /\ db_log' = OpenEvents(clear) \o VehicleInsertEvents(vehicles)
                  /\ returned' = <<>>
                  /\ pc' = "crashed"
             ELSE /\ db' = VehicleInsertAll(IF clear THEN <<>> ELSE <<OldVehicleDbRow>>,
                                            vehicles)
                  /\ db_log' = OpenEvents(clear) \o VehicleInsertEvents(vehicles)
                                   \o <<DbEvent("commit", 0, "ok")>>
                  /\ returned' = <<Cardinality({k \in DOMAIN vehicles :
                                                   ~VehicleInsertFails(vehicles[k])})>>
                  /\ pc' = "done"
    /\ UNCHANGED <<locvars, tool, loader, columns, vehicles, seen_ids, items, origin,
                   json_file, exported>>

\* ------------------------------------------------------------------ locations
\* import_locations.main: pd.read_excel
LocReadExcel ==
    /\ tool = "locations"
    /\ pc = "start"
    /\ df' \in SeqsUpTo(LocationRows, MaxLocationRows)
    /\ pc' = "read"
    /\ UNCHANGED <<maps_data, map_name_to_id, types_data, type_name_to_id, locations_data,
                   loc_files, first_run>>
    /\ UNCHANGED <<dbvars, tool, loader, columns, vehicles, seen_ids, items, origin,
                   json_file, exported, db>>

\* import_locations.main: the Abbrev column is added; the run ends with a
\* TypeError when a Location cell holds no text
LocExtractAbbreviations ==
    /\ tool = "locations"
    /\ pc = "read"
    /\ IF \E i \in DOMAIN df : ExtractRaises(df[i].Location)
       THEN pc' = "crashed" /\ df' = df
       ELSE pc' = "abbrev" /\ df' = WithAbbrev(df)
    /\ UNCHANGED <<maps_data, map_name_to_id, types_data, type_name_to_id, locations_data,
                   loc_files, first_run>>
    /\ UNCHANGED <<dbvars, tool, loader, columns, vehicles, seen_ids, items, origin,
                   json_file, exported, db>>

\* import_locations.main: the maps table
LocBuildMaps ==
    /\ tool = "locations"
    /\ pc = "abbrev"
    /\ maps_data' = BuildMapsData(MapsFrame(df))
    /\ map_name_to_id' = BuildMapNameToId(MapsFrame(df))
    /\ pc' = "maps"
    /\ UNCHANGED <<df, types_data, type_name_to_id, locations_data, loc_files, first_run>>
    /\ UNCHANGED <<dbvars, tool, loader, columns, vehicles, seen_ids, items, origin,
                   json_file, exported, db>>

\* import_locations.main: the location_types table
LocBuildTypes ==
    /\ tool = "locations"
    /\ pc = "maps"
    /\ types_data' = BuildTypesData(TypesSorted(df))
    /\ type_name_to_id' = BuildTypeNameToId(TypesSorted(df))
    /\ pc' = "types"
    /\ UNCHANGED <<df, maps_data, map_name_to_id, locations_data, loc_files, first_run>>
    /\ UNCHANGED <<dbvars, tool, loader, columns, vehicles, seen_ids, items, origin,
                   json_file, exported, db>>

\* import_locations.main: the locations table
LocBuildLocations ==
    /\ tool = "locations"
    /\ pc = "types"
    /\ locations_data' = BuildLocationsData(df, map_name_to_id, type_name_to_id)
    /\ pc' = "locations"
    /\ UNCHANGED <<df, maps_data, map_name_to_id, types_data, type_name_to_id, loc_files,
                   first_run>>
    /\ UNCHANGED <<dbvars, tool, loader, columns, vehicles, seen_ids, items, origin,
                   json_file, exported, db>>

\* import_locations.main: maps.json, location_types.json and locations.json
LocWriteJson ==
    /\ tool = "locations"
    /\ pc = "locations"
    /\ loc_files' = [maps |-> JsonDump(maps_data),
                     location_types |-> JsonDump(types_data),
                     locations |-> JsonDump(locations_data)]
    /\ pc' = "done"
    /\ UNCHANGED <<df, maps_data, map_name_to_id, types_data, type_name_to_id,
                   locations_data, first_run>>
    /\ UNCHANGED <<dbvars, tool, loader, columns, vehicles, seen_ids, items, origin,
                   json_file, exported, db>>

\* import_locations.py is run once more on the same spreadsheet: the files of the
\* first run are kept aside in first_run and main starts over
LocRunAgain ==
    /\ tool = "locations"
    /\ pc = "done"
    /\ first_run = <<>>
    /\ first_run' = <<loc_files>>
    /\ df' = [i \in DOMAIN df |-> [Location |-> df[i].Location, Map |-> df[i].Map,
                                   Type |-> df[i].Type]]
    /\ maps_data' = <<>>
    /\ map_name_to_id' = <<>>
    /\ types_data' = <<>>
    /\ type_name_to_id' = <<>>
    /\ locations_data' = <<>>
    /\ loc_files' = <<>>
    /\ pc' = "read"
    /\ UNCHANGED <<dbvars, tool, loader, columns, vehicles, seen_ids, items, origin,
                   json_file, exported, db>>

Next ==
    \/ VehConvertRow
    \/ VehConvertReturn
    \/ VehLoadFromJson
    \/ VehExportToJson
    \/ ItemReadExcel
    \/ ItemLoadExcelRow
    \/ ItemLoadExcelReturn
    \/ ItemLoadFromJson
    \/ ItemExportToJson
    \/ ItemReloadExported
    \/ ItemImportToDatabase
    \/ VehImportToDatabase
    \/ LocReadExcel
    \/ LocExtractAbbreviations
    \/ LocBuildMaps
    \/ LocBuildTypes
    \/ LocBuildLocations
    \/ LocWriteJson
    \/ LocRunAgain

Spec == Init /\ [][Next]_vars

\* ================================================================== claims

TextCat797FId == <<"C", "A", "T", "_", "7", "9", "7", "F">>
IsVehicleExcelRun == tool = "vehicles" /\ loader = "excel"

\* ------------------------------------------------------------------ C1
\* C1: in convert_excel_to_vehicles no two records of the returned list have
\* the same id, whatever the names of the rows are.
C1_UniqueVehicleIds ==
    IsVehicleExcelRun =>
        \A i, j \in DOMAIN vehicles : i # j => vehicles[i].id # vehicles[j].id

\* C1 witness: the same name twice and then the name that ends in " 2", whose
\* candidate CAT_797F_2 is already taken.
C1_Witness ==
    /\ IsVehicleExcelRun
    /\ Len(vehicles) = 3
    /\ vehicles[1].name = vehicles[2].name
    /\ vehicles[1].id.s = TextCat797FId
    /\ vehicles[2].id.s = TextCat797FId \o <<"_", "2">>
    /\ vehicles[3].name.s = TextCat797F \o <<" ", "2">>
    /\ vehicles[3].id.s = TextCat797FId \o <<"_", "2", "_", "2">>

\* ------------------------------------------------------------------ C2
\* the words of a text: its maximal runs of characters that are not whitespace
RECURSIVE WordsOf(_)
WordsOf(s) ==
    LET t == LStrip(s)
    IN IF t = <<>> THEN <<>>
       ELSE LET stops == {k \in 1..Len(t) : IsSpace(t[k])}
                n == IF stops = {} THEN Len(t) + 1
                     ELSE CHOOSE k \in stops : \A m \in stops : k <= m
            IN <<SubSeq(t, 1, n - 1)>> \o WordsOf(SubSeq(t, n, Len(t)))
RECURSIVE JoinWords(_)
JoinWords(ws) ==
    IF ws = <<>> THEN <<>>
    ELSE IF Len(ws) = 1 THEN ws[1]
         ELSE ws[1] \o <<"_">> \o JoinWords(Tail(ws))

\* the candidate as the claim words it: unwanted characters removed, every run
\* of whitespace made one underscore, upper-cased
ClaimedCandidate(name) == Upper(CollapseSpaces(RemoveNonIdChars(name)))
\* the candidate with the whitespace left at either end dropped first: the
\* words that remain, joined by single underscores, upper-cased
TrimmedCandidate(name) == Upper(JoinWords(WordsOf(RemoveNonIdChars(name))))

Suffixed(cand, k) == cand \o <<"_">> \o Digits(k)
\* the candidate if no earlier row received it, otherwise the candidate with
\* "_k" for the smallest k >= 2 that no earlier row received
ExpectedId(cand, earlier) ==
    IF cand \notin earlier THEN cand
    ELSE LET free == {k \in 2..(Cardinality(earlier) + 2) : Suffixed(cand, k) \notin earlier}
         IN Suffixed(cand, CHOOSE k \in free : \A m \in free : k <= m)
EarlierIds(i) == {vehicles[j].id.s : j \in 1..(i - 1)}

\* C2 as claimed: the id of a row is the candidate (non-alphanumeric characters
\* removed, whitespace runs collapsed to one underscore, upper-cased), suffixed
\* with the smallest free "_k", k >= 2, when an earlier row received it.
C2_IdAsClaimed ==
    IsVehicleExcelRun =>
        \A i \in DOMAIN vehicles :
            vehicles[i].id.s = ExpectedId(ClaimedCandidate(vehicles[i].name.s), EarlierIds(i))

\* C2 amended: the same, with the whitespace that the removal leaves at either
\* end of the name dropped before the runs are collapsed; "CAT 797F!!" yields
\* CAT_797F and a second row of that name yields CAT_797F_2.
C2_IdAmended ==
    IsVehicleExcelRun =>
        /\ \A i \in DOMAIN vehicles :
              vehicles[i].id.s = ExpectedId(TrimmedCandidate(vehicles[i].name.s), EarlierIds(i))
        /\ (Len(vehicles) >= 1 /\ vehicles[1].name.s = TextCat797F \o <<"!", "!">>)
              => vehicles[1].id.s = TextCat797FId
        /\ (Len(vehicles) >= 2 /\ vehicles[1].name.s = TextCat797F \o <<"!", "!">>
                /\ vehicles[2].name = vehicles[1].name)
              => vehicles[2].id.s = TextCat797FId \o <<"_", "2">>

\* C2 witness: "CAT 797F!!" twice, then "CAT 797F !", whose punctuation leaves a
\* trailing blank; it receives CAT_797F_3.
C2_Witness ==
    /\ IsVehicleExcelRun
    /\ Len(vehicles) = 3
    /\ vehicles[1].name.s = TextCat797F \o <<"!", "!">>
    /\ vehicles[2].name.s = TextCat797F \o <<"!", "!">>
    /\ vehicles[2].id.s = TextCat797FId \o <<"_", "2">>
    /\ vehicles[3].name.s = TextCat797F \o <<" ", "!">>
    /\ vehicles[3].id.s = TextCat797FId \o <<"_", "3">>

\* ------------------------------------------------------------------ items: origins
\* the row or object the i-th record of items was made from
EmittedOrigins == SelectSeq(origin, LAMBDA o : o.emitted)
OriginOf(i) == EmittedOrigins[i].row

\* the value the first alias that is supplied (present and not missing) holds
\* in the row, or the default
FirstSupplied(row, names, default) ==
    LET ok == {i \in DOMAIN names : names[i] \in DOMAIN row /\ NotNa(row[names[i]])}
    IN IF ok = {} THEN default
       ELSE row[names[CHOOSE i \in ok : \A j \in ok : i <= j]]
NoneSupplied(row, names) ==
    \A i \in DOMAIN names : names[i] \in DOMAIN row => IsNa(row[names[i]])

JsonNameKeys == <<"name">>
JsonBuyKeys == <<"buy_price_internal", "buyPrice", "buy_price">>
JsonSellKeys == <<"sell_price_internal", "sellPriceInternal", "sell_price">>
NameKeys == IF loader = "excel" THEN NameAliases ELSE JsonNameKeys
BuyKeys == IF loader = "excel" THEN BuyPriceAliases ELSE JsonBuyKeys
SellKeys == IF loader = "excel" THEN SellPriceAliases ELSE JsonSellKeys

\* ------------------------------------------------------------------ C3
\* the record has no name: not a text, blank after trimming, or made from a row
\* that supplies no name
Nameless(i) ==
    \/ items[i].name.t # "str"
    \/ Strip(items[i].name.s) = <<>>
    \/ NoneSupplied(OriginOf(i), NameKeys)

\* C3: no item record with an empty trimmed name, or whose name is missing, is
\* in the list a run holds, whichever loader made it.
C3_NoNamelessItem ==
    tool = "items" => \A i \in DOMAIN items : ~Nameless(i)

\* ------------------------------------------------------------------ C4
\* C4: when the row supplies no sell price, sell_price_internal is
\* buy_price_internal x 0.70, and buy_price_internal is 0 when no buy price is
\* supplied; buy price 100 gives 100 and 70.
C4_DerivedSellPrice ==
    tool = "items" =>
        \A i \in DOMAIN items :
            NoneSupplied(OriginOf(i), SellKeys) =>
                /\ items[i].sell_price_internal.t = "num"
                /\ items[i].sell_price_internal.n * 100 = items[i].buy_price_internal.n * 70
                /\ NoneSupplied(OriginOf(i), BuyKeys) => items[i].buy_price_internal = Num(0)
                /\ ( /\ "buy_price" \in DOMAIN OriginOf(i)
                     /\ OriginOf(i)["buy_price"] = Num(100 * Scale)
                     /\ \A k \in Range(BuyKeys) \ {"buy_price"} : k \notin DOMAIN OriginOf(i) )
                      => /\ items[i].buy_price_internal = Num(100 * Scale)
                         /\ items[i].sell_price_internal = Num(70 * Scale)

\* C4 witness: a sheet with an empty sell price cell beside buy price 100 and
\* beside buy price 2.5.
C4_Witness ==
    /\ tool = "items" /\ loader = "excel"
    /\ Len(items) = 2
    /\ NoneSupplied(OriginOf(1), SellKeys) /\ NoneSupplied(OriginOf(2), SellKeys)
    /\ items[1].buy_price_internal = Num(100 * Scale)
    /\ items[1].sell_price_internal = Num(70 * Scale)
    /\ items[2].buy_price_internal = Num(2500)
    /\ items[2].sell_price_internal = Num(1750)

\* ------------------------------------------------------------------ C5
\* d is x rounded to the nearest integer, a tie going to the even integer
NearestTiesToEven(d, x) ==
    LET k == d.n \div Scale
        gap == IF x.n >= k * Scale THEN x.n - k * Scale ELSE k * Scale - x.n
    IN /\ d.t = "num" /\ x.t = "num"
       /\ d.n = k * Scale
       /\ 2 * gap <= Scale
       /\ 2 * gap = Scale => k % 2 = 0

\* C5: in every item record, of either loader, each display price is its
\* internal price rounded to the nearest integer, both with the same rule for
\* ties (to the even integer).
C5_DisplayRounded ==
    tool = "items" =>
        \A i \in DOMAIN items :
            /\ NearestTiesToEven(items[i].buy_price_display, items[i].buy_price_internal)
            /\ NearestTiesToEven(items[i].sell_price_display, items[i].sell_price_internal)

\* C5 witness: two ties in one record, 2.5 shown as 2 and 3.5 shown as 4, and a
\* derived 1.75 shown as 2 in another.
C5_Witness ==
    /\ tool = "items"
    /\ Len(items) = 2
    /\ items[1].buy_price_internal = Num(2500) /\ items[1].buy_price_display = Num(2 * Scale)
    /\ items[1].sell_price_internal = Num(3500) /\ items[1].sell_price_display = Num(4 * Scale)
    /\ items[2].sell_price_internal = Num(1750) /\ items[2].sell_price_display = Num(2 * Scale)

\* ------------------------------------------------------------------ C6
\* C6: in every vehicle record a run holds, converted from a sheet or loaded
\* from JSON, bucket_capacity_m3 and truck_capacity_m3 are not both non-zero.
C6_NotBothCapacities ==
    tool = "vehicles" =>
        \A i \in DOMAIN vehicles :
            ~(vehicles[i].bucket_capacity_m3.n # 0 /\ vehicles[i].truck_capacity_m3.n # 0)

\* ------------------------------------------------------------------ C7
TextRockTruck == <<"R", "o", "c", "k", " ", "T", "r", "u", "c", "k">>
TruckRawCategories ==
    {TextRockTrucks, TextTrucks, TextFuelTrucks, VehiclesPrefix \o TextRockTrucks,
     VehiclesPrefix \o TextTrucks, VehiclesPrefix \o TextFuelTrucks}

\* C7: the capacity of a sheet row (0 when absent) is in truck_capacity_m3
\* exactly when the canonical main category is "Rock Truck" or "Truck", which
\* the raw categories Rock Trucks, Trucks and Fuel Trucks are with or without
\* the prefix; otherwise, also for a missing or unknown category, it is in
\* bucket_capacity_m3; the other field is 0.
C7_CapacityPlacement ==
    IsVehicleExcelRun =>
        \A i \in DOMAIN vehicles :
            LET cell == origin[i]["Capacity (m3)"]
                cap == IF IsNa(cell) THEN 0 ELSE cell.n
                raw == origin[i]["Category"]
                truck == vehicles[i].category_main.s \in {TextRockTruck, TextTruck}
            IN /\ truck => /\ vehicles[i].truck_capacity_m3 = Num(cap)
                           /\ vehicles[i].bucket_capacity_m3 = Num(0)
               /\ ~truck => /\ vehicles[i].bucket_capacity_m3 = Num(cap)
                            /\ vehicles[i].truck_capacity_m3 = Num(0)
               /\ (NotNa(raw) /\ raw.s \in TruckRawCategories) => truck
               /\ (IsNa(raw) \/ raw.s = TextWidgets) => ~truck

\* C7 witness: a prefixed Fuel Trucks row, a row without category, and a Trucks
\* row without capacity.
C7_Witness ==
    /\ IsVehicleExcelRun
    /\ Len(vehicles) = 3
    /\ origin[1]["Category"] = Str(VehiclesPrefix \o TextFuelTrucks)
    /\ vehicles[1].truck_capacity_m3 = Num(40 * Scale)
    /\ vehicles[1].bucket_capacity_m3 = Num(0)
    /\ IsNa(origin[2]["Category"])
    /\ vehicles[2].bucket_capacity_m3 = Num(5 * Scale)
    /\ vehicles[2].truck_capacity_m3 = Num(0)
    /\ origin[3]["Category"] = Str(VehiclesPrefix \o TextTrucks)
    /\ IsNa(origin[3]["Capacity (m3)"])
    /\ vehicles[3].truck_capacity_m3 = Num(0)

\* ------------------------------------------------------------------ C8
JsonCategoryMainKeys == <<"category_main", "categoryMain", "category">>
CategoryMainKeys == IF loader = "excel" THEN CategoryMainAliases ELSE JsonCategoryMainKeys
\* the text a loader keeps of a supplied category: load_from_excel trims it
KeptText(v) == IF loader = "excel" THEN Str(Strip(PyStr(v))) ELSE v

\* C8: a field takes the value of the first alias, in priority order, that is
\* present and not missing in the row, and its default only when no alias
\* supplies one (buy_price_internal: default 0; category_main: default "").
C8_FirstSuppliedAliasWins ==
    tool = "items" =>
        \A i \in DOMAIN items :
            /\ items[i].buy_price_internal
                  = Num(AsNumber(FirstSupplied(OriginOf(i), BuyKeys, Num(0))))
            /\ items[i].category_main
                  = KeptText(FirstSupplied(OriginOf(i), CategoryMainKeys, Str(<<>>)))

\* ------------------------------------------------------------------ C9
FlagFields == {"is_purchasable", "is_sellable", "is_craftable"}
FlagDefault(f) == f # "is_craftable"
FlagAliases(f) ==
    CASE f = "is_purchasable" -> PurchasableAliases
      [] f = "is_sellable" -> SellableAliases
      [] f = "is_craftable" -> CraftableAliases
FlagCamelKey(f) ==
    CASE f = "is_purchasable" -> "isPurchasable"
      [] f = "is_sellable" -> "isSellable"
      [] f = "is_craftable" -> "isCraftable"
\* the value the loader read for the flag (None when there is none)
FlagRead(i, f) ==
    IF loader = "excel" THEN get_column(columns, OriginOf(i), FlagAliases(f))
    ELSE Get(OriginOf(i), f, Get(OriginOf(i), FlagCamelKey(f), None))

\* the strings the claim takes for true; U+2713 is the check mark
ClaimedTrueWords ==
    {<<"t", "r", "u", "e">>, <<"y", "e", "s">>, <<"1">>, <<"y">>, <<"U+2713">>, <<"x">>}
ClaimedFlag(v, default) ==
    CASE IsNa(v) -> default
      [] v.t = "bool" -> v.b
      [] v.t = "num" -> v.n # 0
      [] v.t = "str" -> Strip(Lower(v.s)) \in ClaimedTrueWords

\* the positions in items of the records whose INSERT did not fail
InsertedPositions ==
    SelectSeq([i \in DOMAIN items |-> i], LAMBDA i : items[i].name.t # "none")

\* C9: each flag of an emitted record is true for boolean true, a non-zero
\* number, or one of "true", "yes", "1", "y", the check mark, "x" (trimmed,
\* any case), false for every other supplied value, and the default (true, true,
\* false) for a missing one; the database receives 1 or 0 accordingly.
C9_FlagsParsed ==
    tool = "items" =>
        /\ \A i \in DOMAIN items : \A f \in FlagFields :
              items[i][f] = Bool(ClaimedFlag(FlagRead(i, f), FlagDefault(f)))
        /\ pc = "done" =>
              \A k \in DOMAIN InsertedPositions : \A f \in FlagFields :
                  db[Len(db) - Len(InsertedPositions) + k][f]
                      = Num(IF ClaimedFlag(FlagRead(InsertedPositions[k], f), FlagDefault(f))
                            THEN Scale ELSE 0)

\* ------------------------------------------------------------------ C10
\* C10: export_to_json followed by load_from_json on the written file returns
\* as many records as were exported, each equal to the original field for field.
C10_JsonRoundTrip ==
    (tool = "items" /\ json_file.written) =>
        /\ pc # "crashed"
        /\ pc = "reloaded" =>
              /\ Len(items) = Len(exported)
              /\ \A i \in DOMAIN items : \A f \in ItemFields : items[i][f] = exported[i][f]

\* ------------------------------------------------------------------ locations: tables
TextArc == <<"A", "R", "C">>
TablesBuilt == tool = "locations" /\ pc \in {"types", "locations", "done"}
LocationsBuilt == tool = "locations" /\ pc \in {"locations", "done"}
MapNames == {df[i].Map : i \in DOMAIN df}
TypeNames == {df[i].Type : i \in DOMAIN df}
EntriesNamed(table, name) == {k \in DOMAIN table : table[k].name = name}

\* ------------------------------------------------------------------ C11
\* C11: the maps table holds exactly one entry per distinct map name and the types
\* table exactly one entry per distinct type name, also for a map whose locations
\* yield different abbreviations; the ids of each table are 1, 2, ..., n in the
\* order of the entries, which are sorted by abbreviation (maps) and by name
\* (types); a second run over the same sheet writes the same files.
C11_OneEntryPerName ==
    /\ TablesBuilt =>
          /\ \A m \in MapNames : Cardinality(EntriesNamed(maps_data, m)) = 1
          /\ \A k \in DOMAIN maps_data : maps_data[k].name \in MapNames
          /\ \A t \in TypeNames : Cardinality(EntriesNamed(types_data, t)) = 1
          /\ \A k \in DOMAIN types_data : types_data[k].name \in TypeNames
          /\ \A k \in DOMAIN maps_data : maps_data[k].id = Num(k * Scale)
          /\ \A k \in DOMAIN types_data : types_data[k].id = Num(k * Scale)
          /\ \A j, k \in DOMAIN maps_data :
                j < k => StrLessEq(maps_data[j].abbrev.s, maps_data[k].abbrev.s)
          /\ \A j, k \in DOMAIN types_data :
                j < k => StrLess(types_data[j].name.s, types_data[k].name.s)
    /\ (tool = "locations" /\ pc = "done" /\ first_run # <<>>) => first_run[1] = loc_files

\* ------------------------------------------------------------------ C12
\* C12: every location record has its 1-based input position as id, its map_id is
\* the id of an entry of the maps table that carries the location's map name, and
\* its type_id is the id of the one entry of the types table that carries the
\* location's type name; no location refers to an id that its table lacks.
C12_ReferentialIntegrity ==
    LocationsBuilt =>
        /\ Len(locations_data) = Len(df)
        /\ \A i \in DOMAIN locations_data :
              /\ locations_data[i].id = Num(i * Scale)
              /\ locations_data[i].name = df[i].Location
              /\ \E k \in DOMAIN maps_data :
                    /\ maps_data[k].id = locations_data[i].map_id
                    /\ maps_data[k].name = df[i].Map
              /\ \E k \in DOMAIN types_data :
                    /\ types_data[k].id = locations_data[i].type_id
                    /\ EntriesNamed(types_data, df[i].Type) = {k}

\* locations of two maps are written, one of the maps under two abbreviations
C12_Witness ==
    /\ tool = "locations"
    /\ pc = "done"
    /\ \E i, j \in DOMAIN locations_data : locations_data[i].map_id # locations_data[j].map_id
    /\ \E i \in DOMAIN df : Cardinality(EntriesNamed(maps_data, df[i].Map)) = 2
    /\ \E i, j \in DOMAIN locations_data : locations_data[i].type_id # locations_data[j].type_id

\* ------------------------------------------------------------------ C13
\* the lengths of the prefixes of name that the separator follows
SeparatorOffsets(name) ==
    {k \in 0..(Len(name) - Len(Separator)) : SubSeq(name, k + 1, k + Len(Separator)) = Separator}
Blanks(s) == \A i \in DOMAIN s : IsSpace(s[i])
\* t is s without the whitespace s starts and ends with
IsTrimmed(t, s) ==
    /\ t # <<>> => ~IsSpace(t[1]) /\ ~IsSpace(t[Len(t)])
    /\ \E a \in 0..Len(s) :
          /\ a + Len(t) <= Len(s)
          /\ SubSeq(s, a + 1, a + Len(t)) = t
          /\ Blanks(SubSeq(s, 1, a))
          /\ Blanks(SubSeq(s, a + Len(t) + 1, Len(s)))
HasAbbrev == tool = "locations" /\ pc \in {"abbrev", "maps", "types", "locations", "done"}

\* C13: for a location name that holds " - ", extract_abbreviation is what stands
\* before the first " - ", trimmed, also when " - " comes several times; for a
\* name without it, the empty text; "ARC - Main Base" gives "ARC" and "Main Base"
\* gives "".
C13_AbbreviationExtracted ==
    /\ HasAbbrev =>
          \A i \in DOMAIN df :
              LET name == df[i].Location.s
                  offsets == SeparatorOffsets(name)
              IN /\ df[i].Abbrev.t = "str"
                 /\ offsets = {} => df[i].Abbrev.s = <<>>
                 /\ offsets # {} =>
                       IsTrimmed(df[i].Abbrev.s,
                                 SubSeq(name, 1, CHOOSE k \in offsets : \A j \in offsets : k <= j))
    /\ extract_abbreviation(TextArcMainBase) = TextArc
    /\ extract_abbreviation(TextMainBase) = <<>>

\* a sheet with a name that holds two separators, a name with blanks around its
\* prefix and a name without separator has received its Abbrev column
C13_Witness ==
    /\ tool = "locations"
    /\ pc = "abbrev"
    /\ \E i \in DOMAIN df : Cardinality(SeparatorOffsets(df[i].Location.s)) = 2
    /\ \E i \in DOMAIN df : df[i].Location.s = TextBwMine /\ df[i].Abbrev.s = <<"B", "W">>
    /\ \E i \in DOMAIN df : SeparatorOffsets(df[i].Location.s) = {} /\ df[i].Abbrev.s = <<>>

\* ------------------------------------------------------------------ C14
ImportStarted == tool \in {"items", "vehicles"} /\ db_log # <<>>
ImportEnded == ImportStarted /\ pc \in {"done", "crashed"}
ImportRecords == IF tool = "items" THEN items ELSE vehicles
Attempts == SelectSeq(db_log, LAMBDA e : e.op = "attempt")
LogPositions(op) == {k \in DOMAIN db_log : db_log[k].op = op}
Succeeded == {k \in DOMAIN Attempts : Attempts[k].outcome = "ok"}

\* C14: import_to_database, for items and for vehicles, deletes the existing rows
\* before the first insertion unless clear_existing is false, attempts the
\* insertions in the order of the list, goes on to every later record after a
\* failed insertion, commits exactly once, after the last attempt, and returns the
\* number of records whose insertion did not fail.
C14_BestEffortImport ==
    ImportStarted =>
        /\ db_log[1].op = "create"
        /\ clear_existing <=> LogPositions("delete") # {}
        /\ \A d \in LogPositions("delete") : \A a \in LogPositions("attempt") : d < a
        /\ \A k \in DOMAIN Attempts : Attempts[k].rec = k
        /\ \A c \in LogPositions("commit") : c = Len(db_log)
        /\ ImportEnded =>
              /\ Len(Attempts) = Len(ImportRecords)
              /\ Cardinality(LogPositions("commit")) = 1
              /\ returned = <<Cardinality(Succeeded)>>
              /\ tool = "items" =>
                    db = (IF clear_existing THEN <<>> ELSE <<OldItemDbRow>>)
                             \o [k \in 1..Len(InsertedPositions) |->
                                    ItemDbRow(items[InsertedPositions[k]])]

\* ------------------------------------------------------------------ C15
\* the sell price keys the row holds
SellKeysHeld(row) == {k \in Range(SellKeys) : k \in DOMAIN row}

\* C15: an item row that supplies a sell price, a sell price of 0 beside a non-zero
\* buy price included, yields a record whose sell_price_internal is the supplied
\* number, in load_from_excel and in load_from_json; the sell price is derived
\* only when none is supplied.
C15_ExplicitSellPriceKept ==
    tool = "items" =>
        \A i \in DOMAIN items :
            \A k \in SellKeysHeld(OriginOf(i)) :
                (SellKeysHeld(OriginOf(i)) = {k} /\ OriginOf(i)[k].t = "num")
                    => items[i].sell_price_internal = OriginOf(i)[k]

====
